---- MODULE Spec2Model ----
(***************************************************************************)
(* A model of the IT Student Mental Health API (src/main.py, with the      *)
(* request schemas of src/schemas.py).  Every HTTP endpoint is one atomic  *)
(* action; the document store behind create_document / get_documents is    *)
(* the only mutable state.                                                 *)
(*                                                                         *)
(* Representation of Python values:                                        *)
(*   - a str is a TLA+ string; Python None in a str-typed place is the     *)
(*     reserved string None, which no other string of the model equals;    *)
(*   - an Optional[int] is a sequence of length at most one (<<>> is None);*)
(*   - a list is a sequence, a dict / a pydantic model is a function from  *)
(*     its keys (a record); d.get(k, default) is Get(d, k, default).       *)
(***************************************************************************)
EXTENDS Integers, Sequences, FiniteSets, TLC

VARIABLES
    db,      \* TRUE iff the store handle `db` is not None
    env,     \* the set of environment variables that are set
    store,   \* collection name -> sequence of documents
    req,     \* the request being served / last served
    resp,    \* its HTTP response
    calls,   \* the store calls the handler made for it, in order
    nreq     \* number of requests served so far

vars == <<db, env, store, req, resp, calls, nreq>>

None == "<None>"

Get(d, k, default) == IF k \in DOMAIN d THEN d[k] ELSE default

Collections == {"assessmentresponse", "moodentry", "contactmessage", "resource", "teammember"}

EmptyStore == [c \in Collections |-> <<>>]

NoReq == [op |-> "none"]
NoResp == [status |-> 0, body |-> <<>>]

HTTPException(status_code, detail) == [status |-> status_code, body |-> [detail |-> detail]]
\* FastAPI's answer to a body that fails the handler's pydantic schema
RequestValidationError == [status |-> 422, body |-> [detail |-> "validation error"]]
\* FastAPI's answer to an exception that escapes the handler
InternalServerError == [status |-> 500, body |-> [detail |-> "Internal Server Error"]]
Ok(body) == [status |-> 200, body |-> body]

---------------------------------------------------------------------------
(* The document store (database.py is not part of the sources; modelled    *)
(* from the collaborator contract: both calls may fail, a call on an       *)
(* absent handle fails, create appends one record, get returns them all).  *)

create_document(st, up, collection_name, data) ==
    IF up
    THEN [raised |-> FALSE, store |-> [st EXCEPT ![collection_name] = Append(@, data)]]
    ELSE [raised |-> TRUE, store |-> st]

get_documents(st, up, collection_name) ==
    IF up
    THEN [raised |-> FALSE, docs |-> st[collection_name]]
    ELSE [raised |-> TRUE, docs |-> <<>>]

CreateCall(collection_name, data, r) ==
    [fn |-> "create_document", collection |-> collection_name, data |-> data, raised |-> r.raised]

GetCall(collection_name, r) ==
    [fn |-> "get_documents", collection |-> collection_name, raised |-> r.raised]

---------------------------------------------------------------------------
(* schemas.py *)

AssessmentKey == {"phq9", "gad7"}
MoodLiteral == {"great", "good", "okay", "low", "down"}
CategoryLiteral == {"article", "video", "guide", "helpline", "tool"}

\* the strings of the model that pydantic's EmailStr accepts
EmailStr == {"ana@uni.edu"}

IsStr(v) == v # None
IsOptionalEmail(v) == v = None \/ v \in EmailStr

ValidAssessmentResponse(p) ==
    /\ p.assessment_key \in AssessmentKey
    /\ IsOptionalEmail(p.student_email)

ValidMoodEntry(e) ==
    /\ e.mood \in MoodLiteral
    /\ IsOptionalEmail(e.student_email)

ValidContactMessage(m) ==
    /\ IsStr(m.name) /\ IsStr(m.subject) /\ IsStr(m.message)
    /\ m.email \in EmailStr

\* Resource(title=..., description=..., url=..., category=...) raises
\* ValidationError unless this holds
ValidResource(r) ==
    /\ IsStr(r.title) /\ IsStr(r.description) /\ IsStr(r.url)
    /\ r.category \in CategoryLiteral

\* TeamMember(name=..., role=..., bio=..., avatar=...): bio and avatar are Optional
ValidTeamMember(t) == IsStr(t.name) /\ IsStr(t.role)

---------------------------------------------------------------------------
(* main.py: seed data and scoring *)

ASSESSMENTS ==
    [phq9 |-> [key |-> "phq9", title |-> "PHQ-9 Depression Questionnaire",
               description |-> "Screens for the presence and severity of depression over the last two weeks."],
     gad7 |-> [key |-> "gad7", title |-> "GAD-7 Anxiety Questionnaire",
               description |-> "Measures severity of generalized anxiety over the last two weeks."]]

PHQ9_WEIGHTS == <<0, 1, 2, 3>>
GAD7_WEIGHTS == <<0, 1, 2, 3>>

\* PHQ9_SEVERITY with the last band one short of the maximum score
PHQ9_SEVERITY_short ==
    << <<0, 4, "Minimal">>,
       <<5, 9, "Mild">>,
       <<10, 14, "Moderate">>,
       <<15, 19, "Moderately Severe">>,
       <<20, 26, "Severe">> >>

PHQ9_SEVERITY ==
    << <<0, 4, "Minimal">>,
       <<5, 9, "Mild">>,
       <<10, 14, "Moderate">>,
       <<15, 19, "Moderately Severe">>,
       <<20, 27, "Severe">> >>

GAD7_SEVERITY ==
    << <<0, 4, "Minimal">>,
       <<5, 9, "Mild">>,
       <<10, 14, "Moderate">>,
       <<15, 21, "Severe">> >>

\* Python's list[i]: 0-based, a negative i counts from the end, anything
\* outside -len..len-1 raises IndexError.
IndexOk(list, i) == -Len(list) <= i /\ i < Len(list)
Index(list, i) == IF i >= 0 THEN list[i + 1] ELSE list[Len(list) + i + 1]

\* severity_from_score with the lower edge of every band excluded
RECURSIVE severity_from_score_open_lo(_, _)
severity_from_score_open_lo(score, bands) ==
    IF bands = <<>> THEN "Unknown"
    ELSE IF Head(bands)[1] < score /\ score <= Head(bands)[2] THEN Head(bands)[3]
         ELSE severity_from_score_open_lo(score, Tail(bands))

RECURSIVE severity_from_score(_, _)
severity_from_score(score, bands) ==
    IF bands = <<>> THEN "Unknown"
    ELSE LET lo == Head(bands)[1]
             hi == Head(bands)[2]
             label == Head(bands)[3]
         IN IF lo <= score /\ score <= hi THEN label
            ELSE severity_from_score(score, Tail(bands))

\* sum(weights[a] for a in answers)
RECURSIVE WeightedSum(_, _)
WeightedSum(weights, answers) ==
    IF answers = <<>> THEN 0
    ELSE Index(weights, Head(answers)) + WeightedSum(weights, Tail(answers))

\* required_len that forgets GAD-7 has 7 items
required_len_always_nine(key) == 9

required_len(key) == IF key = "phq9" THEN 9 ELSE 7

Handled(r, st, cs) == [resp |-> r, store |-> st, calls |-> cs]

\* ScoreAndPersist that hands the payload to the store before scoring it
ScoreAndPersist_persist_first(payload, st, up) ==
    LET key == payload.assessment_key
        weights == IF key = "phq9" THEN PHQ9_WEIGHTS ELSE GAD7_WEIGHTS
        band == IF key = "phq9" THEN PHQ9_SEVERITY ELSE GAD7_SEVERITY
        w == create_document(st, up, "assessmentresponse", payload)
    IN IF \E i \in DOMAIN payload.answers : ~IndexOk(weights, payload.answers[i])
       THEN Handled(InternalServerError, w.store, <<CreateCall("assessmentresponse", payload, w)>>)
       ELSE LET score == WeightedSum(weights, payload.answers)
                scored == [payload EXCEPT !.score = <<score>>,
                                          !.severity = severity_from_score(score, band)]
            IN Handled(Ok(scored), w.store, <<CreateCall("assessmentresponse", payload, w)>>)

\* lines 106-123: score, label, best-effort persist, return
ScoreAndPersist(payload, st, up) ==
    LET key == payload.assessment_key
        weights == IF key = "phq9" THEN PHQ9_WEIGHTS ELSE GAD7_WEIGHTS
        band == IF key = "phq9" THEN PHQ9_SEVERITY ELSE GAD7_SEVERITY
    IN IF \E i \in DOMAIN payload.answers : ~IndexOk(weights, payload.answers[i])
       THEN Handled(InternalServerError, st, <<>>)
       ELSE LET score == WeightedSum(weights, payload.answers)
                scored == [payload EXCEPT !.score = <<score>>,
                                          !.severity = severity_from_score(score, band)]
                w == create_document(st, up, "assessmentresponse", scored)
            IN Handled(Ok(scored), w.store, <<CreateCall("assessmentresponse", scored, w)>>)

\* submit_assessment that trusts assessment_key (no Literal on the schema
\* field, no membership test in the handler)
submit_assessment_trusts_key(payload, st, up) ==
    IF ~IsOptionalEmail(payload.student_email)
    THEN Handled(RequestValidationError, st, <<>>)
    ELSE IF Len(payload.answers) # required_len(payload.assessment_key)
    THEN Handled(HTTPException(400, "Expected " \o ToString(required_len(payload.assessment_key)) \o " answers"),
                 st, <<>>)
    ELSE ScoreAndPersist(payload, st, up)

submit_assessment(payload, st, up) ==
    IF ~ValidAssessmentResponse(payload)
    THEN Handled(RequestValidationError, st, <<>>)
    ELSE IF payload.assessment_key \notin DOMAIN ASSESSMENTS
    THEN Handled(HTTPException(400, "Unknown assessment key"), st, <<>>)
    ELSE IF Len(payload.answers) # required_len(payload.assessment_key)
    THEN Handled(HTTPException(400, "Expected " \o ToString(required_len(payload.assessment_key)) \o " answers"),
                 st, <<>>)
    ELSE ScoreAndPersist(payload, st, up)

---------------------------------------------------------------------------
(* main.py: the other endpoints *)

read_root(st) == Handled(Ok([message |-> "IT Student Mental Health API running"]), st, <<>>)

\* db.list_collection_names(): the collections that hold a document (their
\* order is not modelled; with five collections [:10] cuts nothing)
list_collection_names(st) == {c \in Collections : st[c] # <<>>}

\* the status marks are written without their emoji
test_database(st, hasDb, up, environ) ==
    LET base == [backend |-> "Running", database |-> "Not Available",
                 database_url |-> None, database_name |-> None,
                 connection_status |-> "Not Connected", collections |-> {}]
        avail == [base EXCEPT
                    !.database_url = IF "DATABASE_URL" \in environ THEN "Set" ELSE "Not Set",
                    !.database_name = IF "DATABASE_NAME" \in environ THEN "Set" ELSE "Not Set",
                    !.connection_status = "Connected"]
    IN Handled(
         Ok(IF ~hasDb THEN [base EXCEPT !.database = "Available but not initialized"]
            ELSE IF up THEN [avail EXCEPT !.collections = list_collection_names(st),
                                          !.database = "Connected & Working"]
            ELSE [avail EXCEPT !.database = "Connected but Error"]),
         st, <<>>)

list_assessments(st) == Handled(Ok(<<ASSESSMENTS["phq9"], ASSESSMENTS["gad7"]>>), st, <<>>)

\* add_mood without the try/except around create_document
add_mood_propagates(entry, st, up) ==
    IF ~ValidMoodEntry(entry)
    THEN Handled(RequestValidationError, st, <<>>)
    ELSE LET w == create_document(st, up, "moodentry", entry)
         IN Handled(IF w.raised THEN InternalServerError ELSE Ok(entry),
                    w.store, <<CreateCall("moodentry", entry, w)>>)

add_mood(entry, st, up) ==
    IF ~ValidMoodEntry(entry)
    THEN Handled(RequestValidationError, st, <<>>)
    ELSE LET w == create_document(st, up, "moodentry", entry)
         IN Handled(Ok(entry), w.store, <<CreateCall("moodentry", entry, w)>>)

\* the loop of mood_stats: counts[m] = counts.get(m, 0) + 1
RECURSIVE Tally(_)
Tally(docs) ==
    IF docs = <<>> THEN <<>>
    ELSE LET counts == Tally(SubSeq(docs, 1, Len(docs) - 1))
             m == Get(docs[Len(docs)], "mood", "unknown")
         IN [k \in DOMAIN counts \cup {m} |->
                IF k = m THEN Get(counts, m, 0) + 1 ELSE counts[k]]

\* the loop of a mood_stats that passes over a record without a mood
RECURSIVE TallyPresent(_)
TallyPresent(docs) ==
    IF docs = <<>> THEN <<>>
    ELSE LET counts == TallyPresent(SubSeq(docs, 1, Len(docs) - 1))
             d == docs[Len(docs)]
         IN IF "mood" \notin DOMAIN d THEN counts
            ELSE [k \in DOMAIN counts \cup {d.mood} |->
                     IF k = d.mood THEN Get(counts, d.mood, 0) + 1 ELSE counts[k]]

mood_stats_skips_missing(st, up) ==
    LET r == get_documents(st, up, "moodentry")
    IN Handled(Ok(IF r.raised THEN [total |-> 0, counts |-> <<>>]
                  ELSE [total |-> Len(r.docs), counts |-> TallyPresent(r.docs)]),
               st, <<GetCall("moodentry", r)>>)

mood_stats(st, up) ==
    LET r == get_documents(st, up, "moodentry")
    IN Handled(Ok(IF r.raised THEN [total |-> 0, counts |-> <<>>]
                  ELSE [total |-> Len(r.docs), counts |-> Tally(r.docs)]),
               st, <<GetCall("moodentry", r)>>)

\* U+2019 in the helpline description is written as an apostrophe
DefaultResources ==
    << [title |-> "Coping with Exam Stress (IT)",
        description |-> "Practical steps for managing deadlines and exams.",
        url |-> "https://www.mind.org.uk/", category |-> "guide"],
       [title |-> "Understanding Burnout",
        description |-> "Signs and strategies for students in tech.",
        url |-> "https://www.helpguide.org/", category |-> "article"],
       [title |-> "Breathing Exercise",
        description |-> "4-7-8 guided breathing timer.",
        url |-> "https://www.boxbreathingapp.com/", category |-> "tool"],
       [title |-> "24/7 Helpline",
        description |-> "Immediate assistance if you're in crisis.",
        url |-> "https://988lifeline.org/", category |-> "helpline"] >>

ResourceOf(d) ==
    [title |-> Get(d, "title", ""), description |-> Get(d, "description", ""),
     url |-> Get(d, "url", ""), category |-> Get(d, "category", "article")]

get_resources(st, up) ==
    LET r == get_documents(st, up, "resource")
        mapped == [i \in DOMAIN r.docs |-> ResourceOf(r.docs[i])]
    IN Handled(Ok(IF /\ ~r.raised
                     /\ \A i \in DOMAIN mapped : ValidResource(mapped[i])
                     /\ mapped # <<>>
                  THEN mapped ELSE DefaultResources),
               st, <<GetCall("resource", r)>>)

DefaultTeam ==
    << [name |-> "Ava Patel", role |-> "Clinical Advisor", bio |-> "Guides assessment criteria", avatar |-> None],
       [name |-> "Liam Chen", role |-> "Data Analyst", bio |-> "Turns mood logs into insight", avatar |-> None],
       [name |-> "Sara Gomez", role |-> "Frontend", bio |-> "Designs interactive tools", avatar |-> None],
       [name |-> "Noah Singh", role |-> "Backend", bio |-> "APIs and data layer", avatar |-> None] >>

TeamMemberOf(d) ==
    [name |-> Get(d, "name", ""), role |-> Get(d, "role", ""),
     bio |-> Get(d, "bio", None), avatar |-> Get(d, "avatar", None)]

\* get_team that returns whatever it mapped, an empty list included
get_team_no_seed(st, up) ==
    LET r == get_documents(st, up, "teammember")
        out == [i \in DOMAIN r.docs |-> TeamMemberOf(r.docs[i])]
    IN Handled(Ok(IF ~r.raised /\ \A i \in DOMAIN out : ValidTeamMember(out[i])
                  THEN out ELSE DefaultTeam),
               st, <<GetCall("teammember", r)>>)

get_team(st, up) ==
    LET r == get_documents(st, up, "teammember")
        out == [i \in DOMAIN r.docs |-> TeamMemberOf(r.docs[i])]
    IN Handled(Ok(IF /\ ~r.raised
                     /\ \A i \in DOMAIN out : ValidTeamMember(out[i])
                     /\ out # <<>>
                  THEN out ELSE DefaultTeam),
               st, <<GetCall("teammember", r)>>)

\* send_contact that files the message under the mood tracker's collection
send_contact_wrong_collection(msg, st, up) ==
    IF ~ValidContactMessage(msg)
    THEN Handled(RequestValidationError, st, <<>>)
    ELSE LET w == create_document(st, up, "moodentry", msg)
         IN Handled(Ok([ok |-> TRUE]), w.store, <<CreateCall("moodentry", msg, w)>>)

send_contact(msg, st, up) ==
    IF ~ValidContactMessage(msg)
    THEN Handled(RequestValidationError, st, <<>>)
    ELSE LET w == create_document(st, up, "contactmessage", msg)
         IN Handled(Ok([ok |-> TRUE]), w.store, <<CreateCall("contactmessage", msg, w)>>)

---------------------------------------------------------------------------
(* Actions: one per endpoint.  ok is whether the store answers this        *)
(* request's calls; with db unset every call raises.                       *)

Serve(r, h) ==
    /\ req' = r
    /\ resp' = h.resp
    /\ store' = h.store
    /\ calls' = h.calls
    /\ nreq' = nreq + 1
    /\ UNCHANGED <<db, env>>

SubmitAssessment(payload, ok) ==
    Serve([op |-> "submit_assessment", payload |-> payload],
          submit_assessment(payload, store, db /\ ok))

AddMood(entry, ok) ==
    Serve([op |-> "add_mood", entry |-> entry], add_mood(entry, store, db /\ ok))

MoodStats(ok) ==
    Serve([op |-> "mood_stats"], mood_stats(store, db /\ ok))

GetResources(ok) ==
    Serve([op |-> "get_resources"], get_resources(store, db /\ ok))

GetTeam(ok) ==
    Serve([op |-> "get_team"], get_team(store, db /\ ok))

SendContact(msg, ok) ==
    Serve([op |-> "send_contact", msg |-> msg], send_contact(msg, store, db /\ ok))

ReadRoot == Serve([op |-> "read_root"], read_root(store))

ListAssessments == Serve([op |-> "list_assessments"], list_assessments(store))

TestDatabase(ok) ==
    Serve([op |-> "test_database"], test_database(store, db, db /\ ok, env))

---------------------------------------------------------------------------
(* Inputs *)

Fill(n, v, k, w) == [i \in 1..n |-> IF i <= k THEN v ELSE w]

AnswerLens == {0, 6, 7, 8, 9, 10}
AnswerVals == {-5, -4, -1, 0, 1, 2, 3, 4}

AnswerLists ==
    {Fill(n, v, k, w) : n \in AnswerLens, v \in AnswerVals, w \in AnswerVals, k \in 0..10}

Payload(key, answers, score, severity, email) ==
    [assessment_key |-> key, answers |-> answers, score |-> score,
     severity |-> severity, student_email |-> email]

ScorePayloads ==
    {Payload(key, a, t[1], t[2], None) :
        key \in AssessmentKey \cup {"bdi"},
        a \in AnswerLists,
        t \in {<< <<>>, None >>, << <<99>>, "Unknown" >>}}
    \cup {Payload(key, Fill(n, 3, k, 1), <<>>, None, e) :
             key \in AssessmentKey, n \in {7, 8, 9}, k \in {0, 4, 7},
             e \in {"ana@uni.edu", "not-an-email"}}

---------------------------------------------------------------------------
(* SpecScore: one assessment submission, drawn in the initial state,       *)
(* served against an empty store.                                          *)

InitScore ==
    /\ db \in BOOLEAN
    /\ env = {}
    /\ store = EmptyStore
    /\ req \in {[op |-> "submit_assessment", payload |-> p] : p \in ScorePayloads}
    /\ resp = NoResp
    /\ calls = <<>>
    /\ nreq = 0

ServeSubmission ==
    /\ resp = NoResp
    /\ \E ok \in BOOLEAN : SubmitAssessment(req.payload, ok)

NextScore == ServeSubmission

SpecScore == InitScore /\ [][NextScore]_vars

---------------------------------------------------------------------------
(* Store contents found at start-up.  The resource and teammember          *)
(* collections are only ever filled from outside this service, and the     *)
(* store is schema-less, so their documents need not fit the schemas.      *)

SeqsUpTo2(S) == {<<>>} \cup {<<a>> : a \in S} \cup {<<a, b>> : a \in S, b \in S}
SeqsUpTo3(S) == SeqsUpTo2(S) \cup {<<a, b, c>> : a \in S, b \in S, c \in S}

ResourceDocs ==
    { [title |-> "Sleep and Code", description |-> "Rest for night owls.",
       url |-> "https://example.org/sleep", category |-> "video"],
      [title |-> "Untitled link"],
      [title |-> "Study Podcast", description |-> "Weekly episodes.",
       url |-> "https://example.org/pod", category |-> "podcast"],
      [title |-> None, description |-> "No title yet.",
       url |-> "https://example.org/draft", category |-> "guide"] }

TeamDocs ==
    { [name |-> "Mia Rossi", role |-> "Counsellor", bio |-> "Peer support", avatar |-> "mia.png"],
      [role |-> "Volunteer"],
      [name |-> None, role |-> "Intern"] }

MoodEntryOf(mood, note, email) ==
    [mood |-> mood, note |-> note, student_email |-> email, timestamp |-> None]

MoodDocs ==
    { MoodEntryOf("great", None, None),
      [mood |-> "low"],
      [mood |-> "angry", note |-> "imported"],
      [mood |-> None],
      [note |-> "no mood recorded"] }

ReadStores ==
    {[EmptyStore EXCEPT !["resource"] = r, !["teammember"] = t, !["moodentry"] = m] :
        r \in SeqsUpTo2(ResourceDocs), t \in SeqsUpTo2(TeamDocs), m \in SeqsUpTo3(MoodDocs)}

---------------------------------------------------------------------------
(* SpecRead: one read of the store-backed GET endpoints, against every     *)
(* start-up content of the store.                                          *)

InitRead ==
    /\ db \in BOOLEAN
    /\ env = {}
    /\ store \in (IF db THEN ReadStores ELSE {EmptyStore})
    /\ req = NoReq
    /\ resp = NoResp
    /\ calls = <<>>
    /\ nreq = 0

ReadResources == resp = NoResp /\ \E ok \in BOOLEAN : GetResources(ok)
ReadTeam == resp = NoResp /\ \E ok \in BOOLEAN : GetTeam(ok)
ReadMoodStats == resp = NoResp /\ \E ok \in BOOLEAN : MoodStats(ok)

NextRead == ReadResources \/ ReadTeam \/ ReadMoodStats

SpecRead == InitRead /\ [][NextRead]_vars

---------------------------------------------------------------------------
(* Spec: any sequence of at most MaxRequests requests to any endpoint.     *)

MaxRequests == 3

Threes(n) == [i \in 1..n |-> 3]

Payloads ==
    { Payload("phq9", Threes(9), <<>>, None, None),
      Payload("phq9", Fill(9, 1, 5, 0), <<99>>, "Unknown", "ana@uni.edu"),
      Payload("gad7", Fill(7, 2, 3, 1), <<>>, None, None),
      Payload("gad7", Fill(7, -1, 1, 0), <<>>, None, None),
      Payload("gad7", Fill(7, 4, 1, 0), <<>>, None, None),
      Payload("phq9", Threes(8), <<>>, None, None),
      Payload("bdi", Threes(7), <<>>, None, None),
      Payload("gad7", Threes(7), <<>>, None, "not-an-email") }

MoodEntries ==
    {MoodEntryOf(m, None, None) : m \in MoodLiteral \cup {"angry"}}
    \cup { MoodEntryOf("okay", "long day", "ana@uni.edu"),
           MoodEntryOf("down", None, "not-an-email") }

ContactMessages ==
    { [name |-> "Ana", email |-> "ana@uni.edu", subject |-> "Hello", message |-> "Thanks for the tool."],
      [name |-> "Ana", email |-> "ana@uni.edu", subject |-> "Bug", message |-> "Stats look off."],
      [name |-> "Bo", email |-> "not-an-email", subject |-> "Hi", message |-> "Call me."] }

SeedStores ==
    { EmptyStore,
      [EmptyStore EXCEPT
          !["resource"] = <<CHOOSE d \in ResourceDocs : ValidResource(ResourceOf(d)) /\ "url" \in DOMAIN d>>,
          !["teammember"] = <<CHOOSE d \in TeamDocs : "avatar" \in DOMAIN d>>,
          !["moodentry"] = <<MoodEntryOf("great", None, None), [note |-> "no mood recorded"]>>],
      [EmptyStore EXCEPT
          !["moodentry"] = <<[mood |-> "low"]>>,
          !["contactmessage"] = <<[name |-> "Old", email |-> "old@uni.edu", subject |-> "Archive", message |-> "Kept."]>>,
          !["assessmentresponse"] = <<Payload("gad7", Threes(7), <<21>>, "Severe", None)>>] }

Init ==
    /\ db \in BOOLEAN
    /\ env \in {{}, {"DATABASE_URL", "DATABASE_NAME"}}
    /\ store \in (IF db THEN SeedStores ELSE {EmptyStore})
    /\ req = NoReq
    /\ resp = NoResp
    /\ calls = <<>>
    /\ nreq = 0

More == nreq < MaxRequests

PostSubmit == More /\ \E p \in Payloads, ok \in BOOLEAN : SubmitAssessment(p, ok)
PostMood == More /\ \E e \in MoodEntries, ok \in BOOLEAN : AddMood(e, ok)
PostContact == More /\ \E m \in ContactMessages, ok \in BOOLEAN : SendContact(m, ok)
GetMoodStats == More /\ \E ok \in BOOLEAN : MoodStats(ok)
GetResourceList == More /\ \E ok \in BOOLEAN : GetResources(ok)
GetTeamList == More /\ \E ok \in BOOLEAN : GetTeam(ok)
GetRoot == More /\ ReadRoot
GetAssessments == More /\ ListAssessments
GetTest == More /\ \E ok \in BOOLEAN : TestDatabase(ok)

Next ==
    \/ PostSubmit \/ PostMood \/ PostContact
    \/ GetMoodStats \/ GetResourceList \/ GetTeamList
    \/ GetRoot \/ GetAssessments \/ GetTest

Spec == Init /\ [][Next]_vars

---------------------------------------------------------------------------
(* Properties of one assessment submission (checked under SpecScore)       *)

Served == resp # NoResp

RECURSIVE Sum(_)
Sum(xs) == IF xs = <<>> THEN 0 ELSE Head(xs) + Sum(Tail(xs))

AllIn(xs, S) == \A i \in DOMAIN xs : xs[i] \in S

\* the band tables as the specification prints them
BandLabel(key, score) ==
    IF key = "phq9"
    THEN CASE score \in 0..4 -> "Minimal"
           [] score \in 5..9 -> "Mild"
           [] score \in 10..14 -> "Moderate"
           [] score \in 15..19 -> "Moderately Severe"
           [] score \in 20..27 -> "Severe"
           [] OTHER -> "Unknown"
    ELSE CASE score \in 0..4 -> "Minimal"
           [] score \in 5..9 -> "Mild"
           [] score \in 10..14 -> "Moderate"
           [] score \in 15..21 -> "Severe"
           [] OTHER -> "Unknown"

ItemCount(key) == IF key = "phq9" THEN 9 ELSE 7

IsSubmission == req.op = "submit_assessment"
\* the body parses: student_email is absent or an e-mail address
EmailParses == req.payload.student_email \in {None, "ana@uni.edu"}
KnownKey == req.payload.assessment_key \in {"phq9", "gad7"}
RightCount == Len(req.payload.answers) = ItemCount(req.payload.assessment_key)

\* C1: a phq9 submission with 9 answers, or a gad7 submission with 7, all
\* in 0..3 (and a student_email that parses, if any), is answered with score = sum of the answers and severity = the
\* label of the band holding that score.
C1_ScoreIsSumSeverityIsBand ==
    (Served /\ IsSubmission /\ EmailParses
            /\ KnownKey /\ RightCount /\ AllIn(req.payload.answers, 0..3))
        => /\ resp.status = 200
           /\ resp.body.score = <<Sum(req.payload.answers)>>
           /\ resp.body.severity = BandLabel(req.payload.assessment_key, Sum(req.payload.answers))

\* a phq9 submission scored exactly 20, the lower edge of its last band
C1_Witness ==
    /\ Served /\ IsSubmission /\ resp.status = 200
    /\ req.payload.assessment_key = "phq9"
    /\ AllIn(req.payload.answers, 0..3)
    /\ resp.body.score = <<20>>
    /\ resp.body.severity = "Severe"

\* C2: a submission whose assessment_key is neither phq9 nor gad7 is
\* rejected with a client error; create_document is not called and the
\* store is left as it was.
C2_UnknownKeyRejected ==
    (Served /\ IsSubmission /\ ~KnownKey)
        => /\ resp.status \in 400..499
           /\ calls = <<>>
           /\ store = EmptyStore

\* an unknown key with an otherwise scorable body, store reachable
C2_Witness ==
    /\ Served /\ IsSubmission /\ db
    /\ req.payload.assessment_key = "bdi"
    /\ Len(req.payload.answers) = 7
    /\ AllIn(req.payload.answers, 0..3)
    /\ resp.status \in 400..499

\* C3: a known key with the wrong number of answers (in a body whose
\* student_email parses) is rejected with
\* "Expected 9 answers" (phq9) or "Expected 7 answers" (gad7), before any
\* scoring (whatever the answers' values) and before any persistence.
C3_WrongCountRejected ==
    (Served /\ IsSubmission /\ EmailParses /\ KnownKey /\ ~RightCount)
        => /\ resp.status = 400
           /\ resp.body = [detail |-> IF req.payload.assessment_key = "phq9"
                                      THEN "Expected 9 answers" ELSE "Expected 7 answers"]
           /\ calls = <<>>
           /\ store = EmptyStore

\* a gad7 submission with 9 answers, one of them not even indexable
C3_Witness ==
    /\ Served /\ IsSubmission
    /\ req.payload.assessment_key = "gad7"
    /\ Len(req.payload.answers) = 9
    /\ \E i \in DOMAIN req.payload.answers : req.payload.answers[i] = 4
    /\ resp.status = 400

\* what the weight tables give for an answer Python can index
WrappedWeight(a) == a % 4

RECURSIVE WrappedSum(_)
WrappedSum(xs) == IF xs = <<>> THEN 0 ELSE WrappedWeight(Head(xs)) + WrappedSum(Tail(xs))

\* C8: for every accepted submission the response carries the score and
\* severity computed from the answers, whatever the client put in those
\* fields, everything else echoed; and create_document is handed exactly
\* that record (so it is called after both fields are set).
C8_ServerComputedFields ==
    (Served /\ IsSubmission /\ resp.status = 200)
        => /\ resp.body = [req.payload EXCEPT
                              !.score = <<WrappedSum(req.payload.answers)>>,
                              !.severity = BandLabel(req.payload.assessment_key,
                                                     WrappedSum(req.payload.answers))]
           /\ Len(calls) = 1
           /\ calls[1].fn = "create_document"
           /\ calls[1].collection = "assessmentresponse"
           /\ calls[1].data = resp.body
           /\ store["assessmentresponse"] \in {<<>>, <<resp.body>>}

\* a client that sent its own score and severity, and whose record was stored
C8_Witness ==
    /\ Served /\ IsSubmission /\ resp.status = 200
    /\ req.payload.score = <<99>>
    /\ req.payload.severity = "Unknown"
    /\ resp.body.score = <<12>>
    /\ store["assessmentresponse"] = <<resp.body>>

\* C9: a known key, the right number of answers, some answer outside 0..3:
\* the request fails at the weight-table lookup (not a client error), no
\* score or severity is returned and nothing is persisted.
C9_OutOfRangeFails ==
    (Served /\ IsSubmission /\ EmailParses
            /\ KnownKey /\ RightCount /\ ~AllIn(req.payload.answers, 0..3))
        => /\ resp.status = 500
           /\ calls = <<>>
           /\ store = EmptyStore

\* C10: whenever a score is computed it lies in 0..27 (phq9) or 0..21
\* (gad7), and neither the response nor any stored record is labelled
\* "Unknown".
C10_UnknownUnreachable ==
    (Served /\ IsSubmission /\ resp.status = 200)
        => /\ Len(resp.body.score) = 1
           /\ resp.body.score[1] \in 0..(3 * ItemCount(req.payload.assessment_key))
           /\ resp.body.severity # "Unknown"
           /\ \A i \in DOMAIN store["assessmentresponse"] :
                  store["assessmentresponse"][i].severity # "Unknown"

\* the maximum phq9 score, sent with a client-side label "Unknown", stored
C10_Witness ==
    /\ Served /\ IsSubmission /\ resp.status = 200
    /\ req.payload.assessment_key = "phq9"
    /\ req.payload.severity = "Unknown"
    /\ resp.body.score = <<27>>
    /\ Len(store["assessmentresponse"]) = 1

---------------------------------------------------------------------------
(* Properties of the store-backed reads (checked under SpecRead)           *)

IsRead(op) == Served /\ req.op = op

\* the Resource / TeamMember a stored document stands for: a missing field
\* reads as "", a missing category as "article", a missing bio or avatar
\* as None
AsResource(d) ==
    [title |-> IF "title" \in DOMAIN d THEN d.title ELSE "",
     description |-> IF "description" \in DOMAIN d THEN d.description ELSE "",
     url |-> IF "url" \in DOMAIN d THEN d.url ELSE "",
     category |-> IF "category" \in DOMAIN d THEN d.category ELSE "article"]

AsTeamMember(d) ==
    [name |-> IF "name" \in DOMAIN d THEN d.name ELSE "",
     role |-> IF "role" \in DOMAIN d THEN d.role ELSE "",
     bio |-> IF "bio" \in DOMAIN d THEN d.bio ELSE None,
     avatar |-> IF "avatar" \in DOMAIN d THEN d.avatar ELSE None]

FitsResource(d) ==
    /\ \A k \in {"title", "description", "url"} : k \in DOMAIN d => d[k] # None
    /\ "category" \in DOMAIN d => d.category \in {"article", "video", "guide", "helpline", "tool"}

FitsTeamMember(d) == \A k \in {"name", "role"} : k \in DOMAIN d => d[k] # None

ReadCollection == IF req.op = "get_resources" THEN "resource" ELSE "teammember"
Yielded == db /\ ~calls[1].raised /\ store[ReadCollection] # <<>>
AllFit ==
    \A i \in DOMAIN store[ReadCollection] :
        IF req.op = "get_resources" THEN FitsResource(store[ReadCollection][i])
        ELSE FitsTeamMember(store[ReadCollection][i])
MappedFromStore ==
    [i \in DOMAIN store[ReadCollection] |->
        IF req.op = "get_resources" THEN AsResource(store[ReadCollection][i])
        ELSE AsTeamMember(store[ReadCollection][i])]

IsDefaultSet(body) ==
    /\ Len(body) = 4
    /\ IF req.op = "get_resources"
       THEN /\ [i \in 1..4 |-> body[i].title] =
                 <<"Coping with Exam Stress (IT)", "Understanding Burnout",
                   "Breathing Exercise", "24/7 Helpline">>
            /\ [i \in 1..4 |-> body[i].category] = <<"guide", "article", "tool", "helpline">>
            /\ [i \in 1..4 |-> body[i].url] =
                 <<"https://www.mind.org.uk/", "https://www.helpguide.org/",
                   "https://www.boxbreathingapp.com/", "https://988lifeline.org/">>
       ELSE /\ [i \in 1..4 |-> body[i].name] =
                 <<"Ava Patel", "Liam Chen", "Sara Gomez", "Noah Singh">>
            /\ [i \in 1..4 |-> body[i].role] =
                 <<"Clinical Advisor", "Data Analyst", "Frontend", "Backend">>
            /\ [i \in 1..4 |-> body[i].bio] =
                 <<"Guides assessment criteria", "Turns mood logs into insight",
                   "Designs interactive tools", "APIs and data layer">>

\* C4, as stated: /api/resources and /api/team answer 200 with the default
\* set when the store is unset, empty or its read throws, and with the
\* records mapped from the store whenever it yields at least one record.
C4_MappedWheneverNonEmpty ==
    (IsRead("get_resources") \/ IsRead("get_team"))
        => /\ resp.status = 200
           /\ IF Yielded THEN resp.body = MappedFromStore ELSE IsDefaultSet(resp.body)

\* C4, amended: ... with the records mapped from the store when it yields at
\* least one record and every record fits the schema; when some record does
\* not (a null title or name, a category outside the five), the default
\* set is returned instead.  Never an error.
C4_MappedWhenAllFit ==
    (IsRead("get_resources") \/ IsRead("get_team"))
        => /\ resp.status = 200
           /\ IF Yielded /\ AllFit THEN resp.body = MappedFromStore
              ELSE IsDefaultSet(resp.body)

\* the store yields two resources, one with a category outside the schema;
\* the default set comes back
C4_Witness ==
    /\ IsRead("get_resources")
    /\ Yielded
    /\ Len(store["resource"]) = 2
    /\ FitsResource(store["resource"][1])
    /\ ~FitsResource(store["resource"][2])
    /\ IsDefaultSet(resp.body)

MoodOf(d) == IF "mood" \in DOMAIN d THEN d.mood ELSE "unknown"

RECURSIVE SumOf(_, _)
SumOf(f, S) ==
    IF S = {} THEN 0
    ELSE LET k == CHOOSE k \in S : TRUE IN f[k] + SumOf(f, S \ {k})

---------------------------------------------------------------------------
(* Properties of request sequences (checked under Spec)                    *)

\* C6: a valid POST to /api/mood, /api/contact or /api/assessments/submit
\* gets the same response whether create_document returned or raised: the
\* entry echoed, {ok: true}, the payload with its computed score and
\* severity.
C6_ResponseIgnoresPersistence ==
    Served =>
        /\ (/\ req.op = "add_mood"
            /\ req.entry.mood \in {"great", "good", "okay", "low", "down"}
            /\ req.entry.student_email \in {None, "ana@uni.edu"})
              => resp = [status |-> 200, body |-> req.entry]
        /\ (req.op = "send_contact" /\ req.msg.email = "ana@uni.edu")
              => resp = [status |-> 200, body |-> [ok |-> TRUE]]
        /\ (/\ IsSubmission /\ EmailParses
            /\ KnownKey /\ RightCount /\ AllIn(req.payload.answers, 0..3))
              => resp = [status |-> 200,
                         body |-> [req.payload EXCEPT
                                     !.score = <<Sum(req.payload.answers)>>,
                                     !.severity = BandLabel(req.payload.assessment_key,
                                                            Sum(req.payload.answers))]]

\* a mood entry acknowledged although the reachable store refused the write
C6_Witness ==
    /\ Served /\ req.op = "add_mood"
    /\ db
    /\ Len(calls) = 1 /\ calls[1].raised
    /\ resp = [status |-> 200, body |-> req.entry]

OwnCollection(op) ==
    CASE op = "submit_assessment" -> "assessmentresponse"
      [] op = "add_mood" -> "moodentry"
      [] op = "send_contact" -> "contactmessage"
      [] OTHER -> "(none)"

IsPrefix(s, t) == Len(s) <= Len(t) /\ SubSeq(t, 1, Len(s)) = s

\* C7: serving a request keeps every stored record, in place and
\* unchanged; a POST adds at most one record, to its own collection only,
\* and a GET adds none.
C7_AppendOnly ==
    [][\A c \in Collections :
          /\ IsPrefix(store[c], store'[c])
          /\ Len(store'[c]) <= Len(store[c]) + (IF c = OwnCollection(req'.op) THEN 1 ELSE 0)]_vars

\* a store that held records of three collections at start-up, after a mood
\* entry and then a contact message were both stored
C7_Witness ==
    /\ Served /\ req.op = "send_contact"
    /\ Len(calls) = 1 /\ ~calls[1].raised
    /\ Len(store["contactmessage"]) = 2
    /\ Len(store["moodentry"]) = 2
    /\ Len(store["assessmentresponse"]) = 1

====
